---------------------------- MODULE Spec2Model ----------------------------
(* Model of util/third_cryptography.py (AES, RSAPrivate, RSAPublic and the *)
(* CryptoException hierarchy) and of util.py's CaseInsensitiveDict.        *)
(*                                                                         *)
(* Byte strings are sequences over 0..255.  The block cipher behind        *)
(* algorithms.AES(key) is represented by a keyed bijection on 16-byte      *)
(* blocks; CBC chaining, PKCS7 padding, the cipher/padding contexts and    *)
(* their error paths follow the calls the source makes line by line.       *)
EXTENDS Integers, Sequences, FiniteSets, TLC

VARIABLES
    aes,        \* the AES instance under test (fields set by AES.__init__)
    generated,  \* last return value of AES.generate_key
    call,       \* per caller: the frame of its current AES.encrypt/decrypt call
    cipherCtx,  \* heap of encryptor/decryptor objects, indexed by reference
    padCtx,     \* heap of padder/unpadder objects, indexed by reference
    rsa,        \* the RSA scenario: keys held, PEM blobs, last operation
    cid         \* the CaseInsensitiveDict scenario: data and last lookup

vars == <<aes, generated, call, cipherCtx, padCtx, rsa, cid>>

-----------------------------------------------------------------------------
(* Bounds of the model *)

MaxMsgLen == 33
NumCallers == 2

-----------------------------------------------------------------------------
(* Exceptions *)

NoExc == [kind |-> "", detail |-> ""]

Exc(kind, detail) == [kind |-> kind, detail |-> detail]

\* class X(Parent): the direct base of each exception class that can surface
BaseOf(kind) ==
    CASE kind = "SizeException" -> "CryptoException"
      [] kind = "CryptoException" -> "Exception"
      [] kind = "ValueError" -> "Exception"
      [] kind = "TypeError" -> "Exception"
      [] kind = "KeyError" -> "LookupError"
      [] kind = "LookupError" -> "Exception"
      [] kind = "InvalidSignature" -> "Exception"
      [] kind = "AlreadyFinalized" -> "Exception"
      [] kind = "UnsupportedAlgorithm" -> "Exception"
      [] OTHER -> "BaseException"

RECURSIVE IsSubclass(_, _)
IsSubclass(kind, root) ==
    IF kind = root THEN TRUE
    ELSE IF kind = "BaseException" THEN FALSE
    ELSE IsSubclass(BaseOf(kind), root)

-----------------------------------------------------------------------------
(* Bytes *)

RECURSIVE BitXor(_, _)
BitXor(a, b) ==
    IF a = 0 THEN b
    ELSE IF b = 0 THEN a
    ELSE ((a + b) % 2) + 2 * BitXor(a \div 2, b \div 2)

Repeat(b, n) == [i \in 1..n |-> b]

Take(s, n) == SubSeq(s, 1, n)

Drop(s, n) == SubSeq(s, n + 1, Len(s))

-----------------------------------------------------------------------------
(* AES class constants *)

KEY_SIZES == {16, 24, 32}

BLOCK_SIZE == 16


-----------------------------------------------------------------------------
(* The block cipher built by algorithms.AES(key): a keyed bijection on     *)
(* BLOCK_SIZE-byte blocks (byte i is shifted by the key byte that position *)
(* i selects and by i), with BlockDecrypt its inverse.                     *)

KeyByte(key, i) == key[((i - 1) % Len(key)) + 1]

BlockEncrypt(key, block) ==
    [i \in 1..Len(block) |-> (block[i] + KeyByte(key, i) + i) % 256]

BlockDecrypt(key, block) ==
    [i \in 1..Len(block) |-> (block[i] + 512 - KeyByte(key, i) - i) % 256]

XorBlock(a, b) == [i \in 1..Len(a) |-> BitXor(a[i], b[i])]

\* modes.CBC(iv), encrypting direction: c_i = E_k(p_i xor c_{i-1}), c_0 = iv
RECURSIVE CbcEncryptBlocks(_, _, _)
CbcEncryptBlocks(key, chain, data) ==
    IF Len(data) < BLOCK_SIZE THEN [chain |-> chain, out |-> <<>>]
    ELSE LET c == BlockEncrypt(key, XorBlock(Take(data, BLOCK_SIZE), chain))
             r == CbcEncryptBlocks(key, c, Drop(data, BLOCK_SIZE))
         IN  [chain |-> r.chain, out |-> c \o r.out]

\* modes.CBC(iv), decrypting direction: p_i = D_k(c_i) xor c_{i-1}
RECURSIVE CbcDecryptBlocks(_, _, _)
CbcDecryptBlocks(key, chain, data) ==
    IF Len(data) < BLOCK_SIZE THEN [chain |-> chain, out |-> <<>>]
    ELSE LET c == Take(data, BLOCK_SIZE)
             p == XorBlock(BlockDecrypt(key, c), chain)
             r == CbcDecryptBlocks(key, c, Drop(data, BLOCK_SIZE))
         IN  [chain |-> r.chain, out |-> p \o r.out]

-----------------------------------------------------------------------------
(* Cipher contexts: the objects self.cipher.encryptor() / .decryptor()     *)
(* return.  A context owns its chaining value and its partial-block buffer.*)

NoCtx == [chain |-> <<>>, buf |-> <<>>, fin |-> TRUE]

\* self.cipher.encryptor() / self.cipher.decryptor(): a new context that
\* starts chaining from the iv the Cipher was built with
NewCipherCtx(cipher) == [chain |-> cipher.iv, buf |-> <<>>, fin |-> FALSE]

\* ctx.update(data): processes the whole blocks available, keeps the rest
CipherUpdate(cipher, dir, ctx, data) ==
    IF ctx.fin
    THEN [ctx |-> ctx, out |-> <<>>,
          exc |-> Exc("AlreadyFinalized", "Context was already finalized.")]
    ELSE LET all == ctx.buf \o data
             n == (Len(all) \div BLOCK_SIZE) * BLOCK_SIZE
             r == IF dir = "encrypt"
                  THEN CbcEncryptBlocks(cipher.key, ctx.chain, Take(all, n))
                  ELSE CbcDecryptBlocks(cipher.key, ctx.chain, Take(all, n))
         IN  [ctx |-> [chain |-> r.chain, buf |-> Drop(all, n), fin |-> FALSE],
              out |-> r.out, exc |-> NoExc]

\* ctx.finalize(): CBC carries no padding of its own, so leftover bytes fail
CipherFinalize(ctx) ==
    IF ctx.fin
    THEN [ctx |-> ctx, out |-> <<>>,
          exc |-> Exc("AlreadyFinalized", "Context was already finalized.")]
    ELSE IF ctx.buf # <<>>
    THEN [ctx |-> [ctx EXCEPT !.fin = TRUE], out |-> <<>>,
          exc |-> Exc("ValueError",
             "The length of the provided data is not a multiple of the block length.")]
    ELSE [ctx |-> [ctx EXCEPT !.fin = TRUE], out |-> <<>>, exc |-> NoExc]

-----------------------------------------------------------------------------
(* PKCS7 padding contexts: the objects self.padding.padder() / .unpadder() *)
(* return.  block_size is given in bits.                                   *)

NoPad == [buf |-> <<>>, fin |-> TRUE]

NewPadCtx == [buf |-> <<>>, fin |-> FALSE]

\* padder.update(data): releases the whole blocks buffered so far
PadderUpdate(padding, ctx, data) ==
    LET bs == padding.block_size \div 8
        all == ctx.buf \o data
        n == (Len(all) \div bs) * bs
    IN  IF ctx.fin
        THEN [ctx |-> ctx, out |-> <<>>,
              exc |-> Exc("AlreadyFinalized", "Context was already finalized.")]
        ELSE [ctx |-> [buf |-> Drop(all, n), fin |-> FALSE],
              out |-> Take(all, n), exc |-> NoExc]

\* padder.finalize(): pad_size = block - len(buffer), in 1..block
PadderFinalize(padding, ctx) ==
    LET bs == padding.block_size \div 8
        pad_size == bs - Len(ctx.buf)
    IN  IF ctx.fin
        THEN [ctx |-> ctx, out |-> <<>>,
              exc |-> Exc("AlreadyFinalized", "Context was already finalized.")]
        ELSE [ctx |-> [buf |-> <<>>, fin |-> TRUE],
              out |-> ctx.buf \o Repeat(pad_size, pad_size), exc |-> NoExc]

\* unpadder.update(data): holds the last block back, releases the others
UnpadderUpdate(padding, ctx, data) ==
    LET bs == padding.block_size \div 8
        all == ctx.buf \o data
        k == (Len(all) \div bs) - 1
        n == (IF k > 0 THEN k ELSE 0) * bs
    IN  IF ctx.fin
        THEN [ctx |-> ctx, out |-> <<>>,
              exc |-> Exc("AlreadyFinalized", "Context was already finalized.")]
        ELSE [ctx |-> [buf |-> Drop(all, n), fin |-> FALSE],
              out |-> Take(all, n), exc |-> NoExc]

\* the padding check: the last byte p is in 1..block and the last p bytes are p
PaddingValid(block, bs) ==
    /\ Len(block) = bs
    /\ LET p == block[Len(block)]
       IN  /\ p >= 1
           /\ p <= bs
           /\ \A i \in (bs - p + 1)..bs : block[i] = p

\* unpadder.finalize(): checks the held-back block and strips its padding
UnpadderFinalize(padding, ctx) ==
    LET bs == padding.block_size \div 8
    IN  IF ctx.fin
        THEN [ctx |-> ctx, out |-> <<>>,
              exc |-> Exc("AlreadyFinalized", "Context was already finalized.")]
        ELSE IF PaddingValid(ctx.buf, bs)
        THEN [ctx |-> [buf |-> <<>>, fin |-> TRUE],
              out |-> Take(ctx.buf, bs - ctx.buf[bs]), exc |-> NoExc]
        ELSE [ctx |-> [buf |-> <<>>, fin |-> TRUE], out |-> <<>>,
              exc |-> Exc("ValueError", "Invalid padding bytes.")]

-----------------------------------------------------------------------------
(* Inputs *)

PatternBytes(n, seed) == [i \in 1..n |-> (seed * i) % 256]

Seeds == {1, 5}

\* secrets.token_bytes(n): n bytes the caller cannot predict
TokenBytes(n) == {PatternBytes(n, s) : s \in Seeds}

KeyLens == {0, 15, 16, 17, 24, 31, 32, 33}

IvLens == {0, 15, 16, 17, 32}

KeyPool == UNION {TokenBytes(n) : n \in KeyLens}

IvPool == {PatternBytes(n, 3) : n \in IvLens}

\* a buffer of n bytes that ends with the given tail
Msg(n, tail) ==
    [i \in 1..n |-> IF i > n - Len(tail) THEN tail[i - (n - Len(tail))]
                    ELSE (3 * i) % 256]

Tails == {<<>>, <<1>>, <<2, 2>>, <<16>>, <<0>>}

Msgs ==
    UNION {{Msg(n, t) : t \in {u \in Tails : Len(u) <= n}} : n \in 0..MaxMsgLen}

\* ciphertexts that did not come from encrypt: odd lengths and arbitrary blocks
CtPool == {PatternBytes(n, s) : n \in {0, 1, 15, 16, 17, 32}, s \in Seeds}

Callers == 1..NumCallers

-----------------------------------------------------------------------------
(* AES.__init__ *)

Unset == [set |-> FALSE, key |-> <<>>, iv |-> <<>>, block_size |-> 0]

NoInstance ==
    [args |-> [key |-> <<>>, iv |-> <<>>], cipher |-> Unset, padding |-> Unset,
     raised |-> NoExc, built |-> FALSE]

\* the guard of __init__: len(key) not in KEY_SIZES or len(iv) != BLOCK_SIZE
SizeCheckFailsBothWrong(key, iv) ==
    Len(key) \notin KEY_SIZES /\ Len(iv) # BLOCK_SIZE

SizeCheckFails(key, iv) ==
    Len(key) \notin KEY_SIZES \/ Len(iv) # BLOCK_SIZE

\* block_size=self.BLOCK_SIZE * 8
PaddingBlockBitsUnscaled == BLOCK_SIZE

PaddingBlockBits == BLOCK_SIZE * 8

\* the object __init__ leaves behind for (key, iv)
AESInit(key, iv) ==
    IF SizeCheckFails(key, iv)
    THEN [args |-> [key |-> key, iv |-> iv], cipher |-> Unset, padding |-> Unset,
          raised |-> Exc("SizeException", ""), built |-> FALSE]
    ELSE [args |-> [key |-> key, iv |-> iv],
          cipher |-> [set |-> TRUE, key |-> key, iv |-> iv, block_size |-> 0],
          padding |-> [set |-> TRUE, key |-> <<>>, iv |-> <<>>,
                       block_size |-> PaddingBlockBits],
          raised |-> NoExc, built |-> TRUE]

Idle ==
    [pc |-> "idle", op |-> "", arg |-> <<>>, msg |-> <<>>, ret |-> <<>>,
     exc |-> NoExc, rt |-> FALSE, orig |-> <<>>, encryptor |-> 0, padder |-> 0]

NotGenerated ==
    [called |-> FALSE, key_size |-> 0, key |-> <<>>, iv |-> <<>>, exc |-> NoExc]

\* AES(key, iv), until an instance has been built; the instance is then
\* the one every later call uses
Construct(key, iv) ==
    /\ ~aes.built
    /\ aes' = AESInit(key, iv)
    /\ generated' = NotGenerated
    /\ call' = [c \in Callers |-> Idle]
    /\ cipherCtx' = [c \in Callers |-> NoCtx]
    /\ padCtx' = [c \in Callers |-> NoPad]
    /\ UNCHANGED <<rsa, cid>>

\* AES.generate_key(key_size), called before the instance is built
GenerateKey(key_size) ==
    /\ ~aes.built
    /\ IF key_size < 0
       THEN generated' = [called |-> TRUE, key_size |-> key_size, key |-> <<>>,
                          iv |-> <<>>,
                          exc |-> Exc("ValueError", "negative argument not allowed")]
       ELSE \E k \in TokenBytes(key_size), v \in TokenBytes(BLOCK_SIZE) :
                generated' = [called |-> TRUE, key_size |-> key_size, key |-> k,
                              iv |-> v, exc |-> NoExc]
    /\ UNCHANGED <<aes, call, cipherCtx, padCtx, rsa, cid>>

-----------------------------------------------------------------------------
(* AES.encrypt and AES.decrypt, one step per source line.  A caller's frame *)
(* holds its locals; encryptor/decryptor and padder/unpadder are references *)
(* into the context heaps.                                                  *)

\* the reference of the context object a call creates: every call to
\* encryptor()/decryptor()/padder()/unpadder() returns a new object
CtxRefShared(c) == 1

CtxRef(c) == c

Raise(frame, e) == [frame EXCEPT !.pc = "done", !.exc = e]

\* line 52: encryptor = self.cipher.encryptor()
Encrypt_52(c, m) ==
    /\ aes.built
    /\ call[c].pc = "idle"
    /\ call' = [call EXCEPT ![c] =
                   [Idle EXCEPT !.pc = "53", !.op = "encrypt", !.arg = m,
                                !.msg = m, !.encryptor = CtxRef(c)]]
    /\ cipherCtx' = [cipherCtx EXCEPT ![CtxRef(c)] = NewCipherCtx(aes.cipher)]
    /\ UNCHANGED <<aes, generated, padCtx, rsa, cid>>

\* line 53: padder = self.padding.padder()
Encrypt_53(c) ==
    /\ call[c].pc = "53"
    /\ call[c].op = "encrypt"
    /\ call' = [call EXCEPT ![c].pc = "54", ![c].padder = CtxRef(c)]
    /\ padCtx' = [padCtx EXCEPT ![CtxRef(c)] = NewPadCtx]
    /\ UNCHANGED <<aes, generated, cipherCtx, rsa, cid>>

\* padder.update(msg) with the finalize() call left out
PadAllNoFinalize(padding, ctx, msg) == PadderUpdate(padding, ctx, msg)

\* padder.update(msg) + padder.finalize()
PadAll(padding, ctx, msg) ==
    LET u == PadderUpdate(padding, ctx, msg)
        f == PadderFinalize(padding, u.ctx)
    IN  IF u.exc # NoExc THEN u
        ELSE IF f.exc # NoExc THEN f
        ELSE [ctx |-> f.ctx, out |-> u.out \o f.out, exc |-> NoExc]

\* line 54: msg = padder.update(msg) + padder.finalize()
Encrypt_54(c) ==
    /\ call[c].pc = "54"
    /\ call[c].op = "encrypt"
    /\ LET ref == call[c].padder
           r == PadAll(aes.padding, padCtx[ref], call[c].msg)
       IN  /\ padCtx' = [padCtx EXCEPT ![ref] = r.ctx]
           /\ call' = [call EXCEPT ![c] =
                  IF r.exc # NoExc THEN Raise(@, r.exc)
                  ELSE [@ EXCEPT !.pc = "55", !.msg = r.out]]
    /\ UNCHANGED <<aes, generated, cipherCtx, rsa, cid>>

\* ctx.update(data) + ctx.finalize() on a cipher context
CipherAll(cipher, dir, ctx, data) ==
    LET u == CipherUpdate(cipher, dir, ctx, data)
        f == CipherFinalize(u.ctx)
    IN  IF u.exc # NoExc THEN u
        ELSE IF f.exc # NoExc THEN f
        ELSE [ctx |-> f.ctx, out |-> u.out \o f.out, exc |-> NoExc]

\* line 55: return encryptor.update(msg) + encryptor.finalize()
Encrypt_55(c) ==
    /\ call[c].pc = "55"
    /\ call[c].op = "encrypt"
    /\ LET ref == call[c].encryptor
           r == CipherAll(aes.cipher, "encrypt", cipherCtx[ref], call[c].msg)
       IN  /\ cipherCtx' = [cipherCtx EXCEPT ![ref] = r.ctx]
           /\ call' = [call EXCEPT ![c] =
                  IF r.exc # NoExc THEN Raise(@, r.exc)
                  ELSE [@ EXCEPT !.pc = "done", !.ret = r.out]]
    /\ UNCHANGED <<aes, generated, padCtx, rsa, cid>>

\* line 59: decryptor = self.cipher.decryptor(), for a ciphertext msg;
\* rt records that msg is what encrypt returned for orig
DecryptEnter(c, msg, rt, orig) ==
    /\ aes.built
    /\ call' = [call EXCEPT ![c] =
                   [Idle EXCEPT !.pc = "60", !.op = "decrypt", !.arg = msg,
                                !.msg = msg, !.rt = rt, !.orig = orig,
                                !.encryptor = CtxRef(c)]]
    /\ cipherCtx' = [cipherCtx EXCEPT ![CtxRef(c)] = NewCipherCtx(aes.cipher)]
    /\ UNCHANGED <<aes, generated, padCtx, rsa, cid>>

\* decrypt called on a ciphertext that encrypt did not produce
Decrypt_59(c, msg) ==
    /\ call[c].pc = "idle"
    /\ DecryptEnter(c, msg, FALSE, <<>>)

\* decrypt called on what this caller's encrypt call just returned
DecryptOwn_59(c) ==
    /\ call[c].pc = "done"
    /\ call[c].op = "encrypt"
    /\ call[c].exc = NoExc
    /\ DecryptEnter(c, call[c].ret, TRUE, call[c].arg)

\* line 60: unpadder = self.padding.unpadder()
Decrypt_60(c) ==
    /\ call[c].pc = "60"
    /\ call[c].op = "decrypt"
    /\ call' = [call EXCEPT ![c].pc = "61", ![c].padder = CtxRef(c)]
    /\ padCtx' = [padCtx EXCEPT ![CtxRef(c)] = NewPadCtx]
    /\ UNCHANGED <<aes, generated, cipherCtx, rsa, cid>>

\* line 61: plaintext = decryptor.update(msg) + decryptor.finalize()
Decrypt_61(c) ==
    /\ call[c].pc = "61"
    /\ call[c].op = "decrypt"
    /\ LET ref == call[c].encryptor
           r == CipherAll(aes.cipher, "decrypt", cipherCtx[ref], call[c].msg)
       IN  /\ cipherCtx' = [cipherCtx EXCEPT ![ref] = r.ctx]
           /\ call' = [call EXCEPT ![c] =
                  IF r.exc # NoExc THEN Raise(@, r.exc)
                  ELSE [@ EXCEPT !.pc = "62", !.msg = r.out]]
    /\ UNCHANGED <<aes, generated, padCtx, rsa, cid>>

\* unpadder.update(plaintext) + unpadder.finalize()
UnpadAll(padding, ctx, plaintext) ==
    LET u == UnpadderUpdate(padding, ctx, plaintext)
        f == UnpadderFinalize(padding, u.ctx)
    IN  IF u.exc # NoExc THEN u
        ELSE IF f.exc # NoExc THEN f
        ELSE [ctx |-> f.ctx, out |-> u.out \o f.out, exc |-> NoExc]

\* line 62: return unpadder.update(plaintext) + unpadder.finalize()
Decrypt_62(c) ==
    /\ call[c].pc = "62"
    /\ call[c].op = "decrypt"
    /\ LET ref == call[c].padder
           r == UnpadAll(aes.padding, padCtx[ref], call[c].msg)
       IN  /\ padCtx' = [padCtx EXCEPT ![ref] = r.ctx]
           /\ call' = [call EXCEPT ![c] =
                  IF r.exc # NoExc THEN Raise(@, r.exc)
                  ELSE [@ EXCEPT !.pc = "done", !.ret = r.out]]
    /\ UNCHANGED <<aes, generated, cipherCtx, rsa, cid>>

-----------------------------------------------------------------------------
(* CaseInsensitiveDict(UserDict).  Keys are strings, held as sequences of   *)
(* character codes; self.data is a function from stored keys to values.     *)

MaxKeyChars == 2
MaxEntries == 2

Alphabet == {65, 97, 98}

DictKeys == UNION {[1..n -> Alphabet] : n \in 1..MaxKeyChars}

DictValues == {1, 2}

\* str.lower() on ASCII letters
Lower(key) ==
    [i \in 1..Len(key) |-> IF key[i] \in 65..90 THEN key[i] + 32 ELSE key[i]]

Found(v) == [ok |-> TRUE, val |-> v, exc |-> NoExc]

Missing == [ok |-> FALSE, val |-> 0, exc |-> Exc("KeyError", "")]

Default == [ok |-> FALSE, val |-> 0, exc |-> NoExc]

\* UserDict.__getitem__(key): self.data[key] or KeyError
UserDictGetItem(data, key) ==
    IF key \in DOMAIN data THEN Found(data[key]) ELSE Missing

\* CaseInsensitiveDict.__getitem__(key)
GetItem(data, key) == UserDictGetItem(data, Lower(key))

\* CaseInsensitiveDict.__setitem__(key, value)
SetItem(data, key, value) ==
    [x \in DOMAIN data \cup {Lower(key)} |->
        IF x = Lower(key) THEN value ELSE data[x]]

\* CaseInsensitiveDict.__delitem__(key), for a key that is stored
DelItem(data, key) == [x \in DOMAIN data \ {Lower(key)} |-> data[x]]

\* key in d: UserDict.__contains__ is inherited, and it tests self.data
Contains(data, key) == key \in DOMAIN data

\* d.get(key): inherited.  Mapping.get tries self[key] and catches KeyError;
\* UserDict.get (newer interpreters) asks `key in self` first
Get(impl, data, key) ==
    IF impl = "Mapping.get"
    THEN LET r == GetItem(data, key) IN IF r.ok THEN r ELSE Default
    ELSE IF Contains(data, key) THEN GetItem(data, key) ELSE Default

GetImpls == {"Mapping.get", "UserDict.get"}

EmptyDict == [x \in {} |-> 0]

NoLookup == [op |-> "", key |-> <<>>, res |-> Default, flag |-> FALSE]

NoCid == [data |-> EmptyDict, last |-> NoLookup]

OthersIdle == UNCHANGED <<aes, generated, call, cipherCtx, padCtx, rsa>>

\* d[key] = value
DictSet(key, value) ==
    /\ Cardinality(DOMAIN cid.data \cup {Lower(key)}) <= MaxEntries
    /\ cid' = [data |-> SetItem(cid.data, key, value),
               last |-> [op |-> "set", key |-> key, res |-> Default,
                         flag |-> FALSE]]
    /\ OthersIdle

\* del d[key]
DictDel(key) ==
    /\ cid' = IF Lower(key) \in DOMAIN cid.data
              THEN [data |-> DelItem(cid.data, key),
                    last |-> [op |-> "del", key |-> key, res |-> Default,
                              flag |-> FALSE]]
              ELSE [cid EXCEPT !.last = [op |-> "del", key |-> key,
                                         res |-> Missing, flag |-> FALSE]]
    /\ OthersIdle

\* d[key]
DictGetItem(key) ==
    /\ cid' = [cid EXCEPT !.last = [op |-> "getitem", key |-> key,
                                    res |-> GetItem(cid.data, key),
                                    flag |-> FALSE]]
    /\ OthersIdle

\* d.get(key)
DictGet(key) ==
    /\ \E impl \in GetImpls :
         cid' = [cid EXCEPT !.last = [op |-> "get", key |-> key,
                                      res |-> Get(impl, cid.data, key),
                                      flag |-> FALSE]]
    /\ OthersIdle

\* key in d
DictContains(key) ==
    /\ cid' = [cid EXCEPT !.last = [op |-> "contains", key |-> key,
                                    res |-> Default,
                                    flag |-> Contains(cid.data, key)]]
    /\ OthersIdle

-----------------------------------------------------------------------------
(* RSA.  Key material, PEM/SSH encodings, signatures and ciphertexts are    *)
(* terms: an encoding records what it encodes and the randomness (salt)     *)
(* that went into it, and the primitives accept exactly the terms the       *)
(* matching primitive built.                                                *)

KeyIds == {1, 2}

Salts == {1, 2}

NoPw == [some |-> FALSE, v |-> <<>>]

Pw(v) == [some |-> TRUE, v |-> v]

\* passwords a key is protected with, and passwords tried when loading
Passwords == {NoPw, Pw(<<112>>)}

LoadPasswords == Passwords \cup {Pw(<<113>>)}

RsaMsgs == {<<>>, <<109>>}

Blob(kind, id, enc, pw, salt, msg) ==
    [kind |-> kind, id |-> id, enc |-> enc, pw |-> pw, salt |-> salt,
     msg |-> msg, bad |-> FALSE]

NoBlob == Blob("", 0, FALSE, <<>>, 0, <<>>)

Junk == Blob("junk", 0, FALSE, <<>>, 0, <<>>)

\* a blob with one bit flipped
Flip(b) == [b EXCEPT !.bad = TRUE]

LibOk(blob, id) == [ret |-> blob, id |-> id, exc |-> NoExc]

LibRaise(kind, detail) == [ret |-> NoBlob, id |-> 0, exc |-> Exc(kind, detail)]

\* serialization.NoEncryption() / serialization.BestAvailableEncryption(pw)
NoEncryption == [encrypt |-> FALSE, password |-> <<>>]

BestAvailableEncryption(password) == [encrypt |-> TRUE, password |-> password]

\* key.private_bytes(PEM, PKCS8, encryption_algorithm): an encrypted PEM is
\* built with a salt drawn for this call
PrivateBytes(id, algorithm, salt) ==
    IF ~algorithm.encrypt
    THEN LibOk(Blob("privpem", id, FALSE, <<>>, 0, <<>>), id)
    ELSE IF algorithm.password = <<>>
    THEN LibRaise("ValueError", "Password must be 1 or more bytes.")
    ELSE LibOk(Blob("privpem", id, TRUE, algorithm.password, salt, <<>>), id)

\* serialization.load_pem_private_key(data, password, backend)
LoadPemPrivateKey(data, password) ==
    IF data.kind # "privpem" \/ data.bad
    THEN LibRaise("ValueError", "Could not deserialize key data.")
    ELSE IF data.enc /\ ~password.some
    THEN LibRaise("TypeError", "Password was not given but private key is encrypted")
    ELSE IF ~data.enc /\ password.some
    THEN LibRaise("TypeError", "Password was given but private key is not encrypted.")
    ELSE IF data.enc /\ password.v # data.pw
    THEN LibRaise("ValueError", "Bad decrypt. Incorrect password?")
    ELSE LibOk(NoBlob, data.id)

\* key.public_bytes(encoding, format)
PublicBytes(id, encoding) ==
    LibOk(Blob(IF encoding = "PEM" THEN "pubpem" ELSE "ssh", id, FALSE, <<>>, 0, <<>>), id)

\* serialization.load_pem_public_key / load_ssh_public_key
LoadPublicKey(data, encoding) ==
    IF data.kind # (IF encoding = "PEM" THEN "pubpem" ELSE "ssh") \/ data.bad
    THEN LibRaise("ValueError", "Could not deserialize key data.")
    ELSE LibOk(NoBlob, data.id)

\* key.sign(data, PSS(MGF1(SHA256), MAX_LENGTH), SHA256), with a fresh salt
SignPSS(id, m, salt) == LibOk(Blob("sig", id, FALSE, <<>>, salt, m), id)

\* key.verify(signature, data, PSS(...), SHA256): returns None or raises
VerifyPSS(id, signature, m) ==
    IF signature.kind = "sig" /\ ~signature.bad /\ signature.id = id
       /\ signature.msg = m
    THEN LibOk(NoBlob, id)
    ELSE LibRaise("InvalidSignature", "")

\* key.encrypt(plaintext, OAEP(MGF1(SHA256), SHA256, None)), with a fresh seed
EncryptOAEP(id, m, seed) == LibOk(Blob("ct", id, FALSE, <<>>, seed, m), id)

\* key.decrypt(ciphertext, OAEP(MGF1(SHA256), SHA256, None))
DecryptOAEP(id, ciphertext) ==
    IF ciphertext.kind = "ct" /\ ~ciphertext.bad /\ ciphertext.id = id
    THEN LibOk(Blob("plain", 0, FALSE, <<>>, 0, ciphertext.msg), id)
    ELSE LibRaise("ValueError", "Decryption failed.")

\* format_pem that never encrypts
FormatPemNeverEncrypted(id, password, salt) == PrivateBytes(id, NoEncryption, salt)

\* RSAPrivate.format_pem(password)
FormatPem(id, password, salt) ==
    LET algorithm == IF ~password.some THEN NoEncryption
                     ELSE BestAvailableEncryption(password.v)
    IN  PrivateBytes(id, algorithm, salt)

\* RSAPublic.verify: True when key.verify returns, False on InvalidSignature
VerifyNoExcept(id, signature, m) ==
    LET r == VerifyPSS(id, signature, m)
    IN  [ret |-> r.exc = NoExc, exc |-> r.exc]

Verify(id, signature, m) ==
    LET r == VerifyPSS(id, signature, m)
    IN  IF r.exc = NoExc THEN [ret |-> TRUE, exc |-> NoExc]
        ELSE IF IsSubclass(r.exc.kind, "InvalidSignature")
        THEN [ret |-> FALSE, exc |-> NoExc]
        ELSE [ret |-> FALSE, exc |-> r.exc]

NoKey == [set |-> FALSE, id |-> 0, src |-> NoBlob, src_pw |-> NoPw]

NoLast ==
    [op |-> "", a |-> NoBlob, m |-> <<>>, pw |-> NoPw, ret |-> NoBlob,
     flag |-> FALSE, exc |-> NoExc]

Last(op, a, m, pw, ret, flag, exc) ==
    [op |-> op, a |-> a, m |-> m, pw |-> pw, ret |-> ret, flag |-> flag,
     exc |-> exc]

NoRsa ==
    [pem |-> NoBlob, pubpem |-> NoBlob, priv |-> NoKey, pub |-> NoKey,
     last |-> NoLast]

AesIdle == UNCHANGED <<aes, generated, call, cipherCtx, padCtx, cid>>

\* RSAPrivate.generate_key(password): (private PEM, public PEM) of a new key
RSAGenerateKey(password) ==
    /\ \E id \in KeyIds, salt \in Salts :
         LET private_pem == FormatPem(id, password, salt)
             public_pem == PublicBytes(id, "PEM")
         IN  rsa' = IF private_pem.exc # NoExc
                    THEN [rsa EXCEPT !.last = Last("generate_key", NoBlob, <<>>,
                              password, NoBlob, FALSE, private_pem.exc)]
                    ELSE [rsa EXCEPT !.pem = private_pem.ret,
                                     !.pubpem = public_pem.ret,
                                     !.last = Last("generate_key", NoBlob, <<>>,
                                         password, private_pem.ret, FALSE, NoExc)]
    /\ AesIdle

\* RSAPrivate.load_pem(msg, password)
PrivLoadPem(msg, password) ==
    /\ LET r == LoadPemPrivateKey(msg, password)
       IN  rsa' = IF r.exc # NoExc
                  THEN [rsa EXCEPT !.last = Last("load_pem", msg, <<>>, password,
                                                 NoBlob, FALSE, r.exc)]
                  ELSE [rsa EXCEPT !.priv = [set |-> TRUE, id |-> r.id,
                                             src |-> msg, src_pw |-> password],
                                   !.last = Last("load_pem", msg, <<>>, password,
                                                 NoBlob, FALSE, NoExc)]
    /\ AesIdle

\* RSAPrivate.format_pem(password) on the key in hand
PrivFormatPem(password) ==
    /\ rsa.priv.set
    /\ \E salt \in Salts :
         LET r == FormatPem(rsa.priv.id, password, salt)
         IN  rsa' = [rsa EXCEPT !.last = Last("format_pem", NoBlob, <<>>, password,
                                              r.ret, FALSE, r.exc)]
    /\ AesIdle

\* RSAPrivate.sign(msg)
PrivSign(m) ==
    /\ rsa.priv.set
    /\ \E salt \in Salts :
         LET r == SignPSS(rsa.priv.id, m, salt)
         IN  rsa' = [rsa EXCEPT !.last = Last("sign", NoBlob, m, NoPw, r.ret,
                                              FALSE, r.exc)]
    /\ AesIdle

\* RSAPrivate.decrypt(msg)
PrivDecrypt(msg) ==
    /\ rsa.priv.set
    /\ LET r == DecryptOAEP(rsa.priv.id, msg)
       IN  rsa' = [rsa EXCEPT !.last = Last("decrypt", msg, <<>>, NoPw, r.ret,
                                            FALSE, r.exc)]
    /\ AesIdle

\* RSAPublic.load_pem(msg) / RSAPublic.load_ssh(msg)
PubLoad(msg, encoding) ==
    /\ LET r == LoadPublicKey(msg, encoding)
           op == IF encoding = "PEM" THEN "pub_load_pem" ELSE "pub_load_ssh"
       IN  rsa' = IF r.exc # NoExc
                  THEN [rsa EXCEPT !.last = Last(op, msg, <<>>, NoPw, NoBlob,
                                                 FALSE, r.exc)]
                  ELSE [rsa EXCEPT !.pub = [set |-> TRUE, id |-> r.id,
                                            src |-> NoBlob, src_pw |-> NoPw],
                                   !.last = Last(op, msg, <<>>, NoPw, NoBlob,
                                                 FALSE, NoExc)]
    /\ AesIdle

\* RSAPublic.format_pem() / RSAPublic.format_ssh()
PubFormat(encoding) ==
    /\ rsa.pub.set
    /\ LET r == PublicBytes(rsa.pub.id, encoding)
           op == IF encoding = "PEM" THEN "pub_format_pem" ELSE "pub_format_ssh"
       IN  rsa' = [rsa EXCEPT !.last = Last(op, NoBlob, <<>>, NoPw, r.ret, FALSE,
                                            r.exc)]
    /\ AesIdle

\* RSAPublic.encrypt(msg)
PubEncrypt(m) ==
    /\ rsa.pub.set
    /\ \E seed \in Salts :
         LET r == EncryptOAEP(rsa.pub.id, m, seed)
         IN  rsa' = [rsa EXCEPT !.last = Last("encrypt", NoBlob, m, NoPw, r.ret,
                                              FALSE, r.exc)]
    /\ AesIdle

\* RSAPublic.verify(signature, msg)
PubVerify(signature, m) ==
    /\ rsa.pub.set
    /\ LET r == Verify(rsa.pub.id, signature, m)
       IN  rsa' = [rsa EXCEPT !.last = Last("verify", signature, m, NoPw, NoBlob,
                                            r.ret, r.exc)]
    /\ AesIdle

\* the byte strings a caller has at hand to pass on: what the last call
\* returned, the PEMs of the generated pair, damaged copies, and junk
Held ==
    LET own == {rsa.pem, rsa.pubpem, rsa.last.ret} \ {NoBlob}
    IN  own \cup {Flip(b) : b \in own} \cup {Junk}

InitRSA ==
    /\ aes = NoInstance
    /\ generated = NotGenerated
    /\ call = [c \in Callers |-> Idle]
    /\ cipherCtx = [c \in Callers |-> NoCtx]
    /\ padCtx = [c \in Callers |-> NoPad]
    /\ rsa = NoRsa
    /\ cid = NoCid

RSAGenerateKeyAny == \E pw \in Passwords : RSAGenerateKey(pw)

PrivLoadPemAny == \E b \in Held, pw \in LoadPasswords : PrivLoadPem(b, pw)

PrivFormatPemAny == \E pw \in Passwords : PrivFormatPem(pw)

PrivSignAny == \E m \in RsaMsgs : PrivSign(m)

PrivDecryptAny == \E b \in Held : PrivDecrypt(b)

PubLoadPemAny == \E b \in Held : PubLoad(b, "PEM")

PubLoadSshAny == \E b \in Held : PubLoad(b, "SSH")

PubFormatPemAny == PubFormat("PEM")

PubFormatSshAny == PubFormat("SSH")

PubEncryptAny == \E m \in RsaMsgs : PubEncrypt(m)

PubVerifyAny == \E b \in Held, m \in RsaMsgs : PubVerify(b, m)

NextRSA ==
    \/ RSAGenerateKeyAny
    \/ PrivLoadPemAny
    \/ PrivFormatPemAny
    \/ PrivSignAny
    \/ PrivDecryptAny
    \/ PubLoadPemAny
    \/ PubLoadSshAny
    \/ PubFormatPemAny
    \/ PubFormatSshAny
    \/ PubEncryptAny
    \/ PubVerifyAny

SpecRSA == InitRSA /\ [][NextRSA]_vars

\* the caller drops the value (or exception) the call handed back, and with
\* it the call's locals
Return(c) ==
    /\ call[c].pc = "done"
    /\ call' = [call EXCEPT ![c] = Idle]
    /\ cipherCtx' = [cipherCtx EXCEPT ![CtxRef(c)] = NoCtx]
    /\ padCtx' = [padCtx EXCEPT ![CtxRef(c)] = NoPad]
    /\ UNCHANGED <<aes, generated, rsa, cid>>

-----------------------------------------------------------------------------
(* AES.encrypt / AES.decrypt run from entry to return with no other call   *)
(* in between, on an instance built from (key, iv)                         *)

EncryptAlone(key, iv, m) ==
    LET self == AESInit(key, iv)
        encryptor == NewCipherCtx(self.cipher)
        padded == PadAll(self.padding, NewPadCtx, m)
        r == CipherAll(self.cipher, "encrypt", encryptor, padded.out)
    IN  IF padded.exc # NoExc THEN [ret |-> <<>>, exc |-> padded.exc]
        ELSE [ret |-> r.out, exc |-> r.exc]

DecryptAlone(key, iv, m) ==
    LET self == AESInit(key, iv)
        decryptor == NewCipherCtx(self.cipher)
        plaintext == CipherAll(self.cipher, "decrypt", decryptor, m)
        r == UnpadAll(self.padding, NewPadCtx, plaintext.out)
    IN  IF plaintext.exc # NoExc THEN [ret |-> <<>>, exc |-> plaintext.exc]
        ELSE [ret |-> r.out, exc |-> r.exc]

-----------------------------------------------------------------------------
(* Specification of the AES class used by one caller *)

InitAES ==
    /\ aes = NoInstance
    /\ generated = NotGenerated
    /\ call = [c \in Callers |-> Idle]
    /\ cipherCtx = [c \in Callers |-> NoCtx]
    /\ padCtx = [c \in Callers |-> NoPad]
    /\ rsa = NoRsa
    /\ cid = NoCid

ConstructFromPool == \E k \in KeyPool, v \in IvPool : Construct(k, v)

ConstructFromGenerated ==
    /\ generated.called
    /\ generated.exc = NoExc
    /\ Construct(generated.key, generated.iv)

GenerateKeyAny == \E n \in KeyLens \cup {-1} : GenerateKey(n)

EncryptCall == \E m \in Msgs : Encrypt_52(1, m)

DecryptCall == \E m \in CtPool : Decrypt_59(1, m)

NextAES ==
    \/ ConstructFromPool
    \/ ConstructFromGenerated
    \/ GenerateKeyAny
    \/ EncryptCall
    \/ Encrypt_53(1)
    \/ Encrypt_54(1)
    \/ Encrypt_55(1)
    \/ DecryptCall
    \/ DecryptOwn_59(1)
    \/ Decrypt_60(1)
    \/ Decrypt_61(1)
    \/ Decrypt_62(1)
    \/ Return(1)

SpecAES == InitAES /\ [][NextAES]_vars

-----------------------------------------------------------------------------
(* Specification of CaseInsensitiveDict *)

InitDict ==
    /\ aes = NoInstance
    /\ generated = NotGenerated
    /\ call = [c \in Callers |-> Idle]
    /\ cipherCtx = [c \in Callers |-> NoCtx]
    /\ padCtx = [c \in Callers |-> NoPad]
    /\ rsa = NoRsa
    /\ cid = NoCid

DictSetAny == \E k \in DictKeys, v \in DictValues : DictSet(k, v)

DictDelAny == \E k \in DictKeys : DictDel(k)

DictGetItemAny == \E k \in DictKeys : DictGetItem(k)

DictGetAny == \E k \in DictKeys : DictGet(k)

DictContainsAny == \E k \in DictKeys : DictContains(k)

NextDict ==
    \/ DictSetAny
    \/ DictDelAny
    \/ DictGetItemAny
    \/ DictGetAny
    \/ DictContainsAny

SpecDict == InitDict /\ [][NextDict]_vars

-----------------------------------------------------------------------------
(* Specification of one AES instance shared by several callers *)

SharedInstances ==
    {AESInit(PatternBytes(16, 1), PatternBytes(16, 3)),
     AESInit(PatternBytes(32, 5), PatternBytes(16, 3))}

SharedMsgs == {Msg(0, <<>>), Msg(16, <<16>>), Msg(17, <<1>>)}

SharedCts == {PatternBytes(15, 1), PatternBytes(16, 1)}

InitShared ==
    /\ aes \in SharedInstances
    /\ generated = NotGenerated
    /\ call = [c \in Callers |-> Idle]
    /\ cipherCtx = [c \in Callers |-> NoCtx]
    /\ padCtx = [c \in Callers |-> NoPad]
    /\ rsa = NoRsa
    /\ cid = NoCid

SharedEncryptCall(c) == \E m \in SharedMsgs : Encrypt_52(c, m)

SharedDecryptCall(c) == \E m \in SharedCts : Decrypt_59(c, m)

NextShared ==
    \E c \in Callers :
        \/ SharedEncryptCall(c)
        \/ Encrypt_53(c)
        \/ Encrypt_54(c)
        \/ Encrypt_55(c)
        \/ SharedDecryptCall(c)
        \/ DecryptOwn_59(c)
        \/ Decrypt_60(c)
        \/ Decrypt_61(c)
        \/ Decrypt_62(c)
        \/ Return(c)

SpecShared == InitShared /\ [][NextShared]_vars

-----------------------------------------------------------------------------
(* Properties of the AES class *)

Done(c, op) == call[c].pc = "done" /\ call[c].op = op

\* C1: AES(key, iv) succeeds exactly when len(key) is 16, 24 or 32 and
\* len(iv) is 16; otherwise it raises SizeException, a CryptoException, and
\* neither the cipher nor the padding attribute has been created.
C1_ConstructIffValidSizes ==
    (aes.built \/ aes.raised # NoExc) =>
        LET ok == Len(aes.args.key) \in {16, 24, 32} /\ Len(aes.args.iv) = 16
        IN  /\ ok => /\ aes.built
                     /\ aes.raised = NoExc
                     /\ aes.cipher.set
                     /\ aes.padding.set
            /\ ~ok => /\ ~aes.built
                      /\ aes.raised.kind = "SizeException"
                      /\ IsSubclass(aes.raised.kind, "CryptoException")
                      /\ ~aes.cipher.set
                      /\ ~aes.padding.set

\* C1 witness: a 16-byte key with a 15-byte iv was refused
C1_Witness ==
    /\ aes.raised.kind = "SizeException"
    /\ Len(aes.args.key) = 16
    /\ Len(aes.args.iv) = 15

\* C2: decrypt(encrypt(m)) on the same instance returns exactly m
C2_RoundTrip ==
    \A c \in Callers :
        (Done(c, "decrypt") /\ call[c].rt) =>
            /\ call[c].exc = NoExc
            /\ call[c].ret = call[c].orig

\* C2 witness: a two-block message whose last byte looks like padding went
\* through encrypt and decrypt
C2_Witness ==
    \E c \in Callers :
        /\ Done(c, "decrypt")
        /\ call[c].rt
        /\ Len(call[c].orig) = 32
        /\ call[c].orig[32] = 1
        /\ Len(call[c].arg) = 48

\* C4: every failure of a core operation is a CryptoException
C4_AllFailuresAreCryptoException ==
    /\ aes.raised # NoExc => IsSubclass(aes.raised.kind, "CryptoException")
    /\ \A c \in Callers :
           call[c].exc # NoExc => IsSubclass(call[c].exc.kind, "CryptoException")
    /\ rsa.last.exc # NoExc => IsSubclass(rsa.last.exc.kind, "CryptoException")

\* C5: any two failing decrypt calls, one refused for its length and one for
\* its padding, show the caller the same error (kind and detail)
C5_DecryptFailuresIndistinguishable ==
    \A c1, c2 \in Callers :
        (/\ Done(c1, "decrypt")
         /\ Done(c2, "decrypt")
         /\ call[c1].exc # NoExc
         /\ call[c2].exc # NoExc) => call[c1].exc = call[c2].exc

\* C6: generate_key(key_size) returns a pair only for key_size in
\* {16, 24, 32}, the pair has the requested lengths and AES accepts it, and
\* any other key_size is rejected
C6_GenerateKeyOnlyAcceptedSizes ==
    generated.called =>
        IF generated.key_size \in {16, 24, 32}
        THEN /\ generated.exc = NoExc
             /\ Len(generated.key) = generated.key_size
             /\ Len(generated.iv) = 16
             /\ AESInit(generated.key, generated.iv).raised = NoExc
        ELSE generated.exc # NoExc

\* C7: on a shared instance every call returns what it would return run
\* alone on a fresh instance built from the same key and iv, and the
\* instance stays bound to that key and iv
C7_SharedCallsAsIfAlone ==
    /\ aes.built
    /\ aes.cipher.key = aes.args.key
    /\ aes.cipher.iv = aes.args.iv
    /\ \A c \in Callers :
           call[c].pc = "done" =>
               LET alone == IF call[c].op = "encrypt"
                            THEN EncryptAlone(aes.args.key, aes.args.iv, call[c].arg)
                            ELSE DecryptAlone(aes.args.key, aes.args.iv, call[c].arg)
               IN  /\ call[c].ret = alone.ret
                   /\ call[c].exc = alone.exc

\* C7 witness: one caller has finished an encrypt call that another
\* caller's encrypt call overlapped
C7_Witness ==
    \E c1, c2 \in Callers :
        /\ c1 # c2
        /\ Done(c1, "encrypt")
        /\ call[c1].exc = NoExc
        /\ Len(call[c1].arg) = 17
        /\ call[c2].op = "encrypt"
        /\ call[c2].pc = "55"

\* C8: len(encrypt(m)) = len(m) + (16 - len(m) % 16): a multiple of 16,
\* longer than m by 1..16 bytes, by a whole block when m is aligned
C8_PaddingGrowth ==
    \A c \in Callers :
        Done(c, "encrypt") =>
            LET n == Len(call[c].arg)
                out == Len(call[c].ret)
            IN  /\ call[c].exc = NoExc
                /\ out = n + (16 - (n % 16))
                /\ out % 16 = 0
                /\ out > n
                /\ out - n \in 1..16
                /\ ((n % 16) = 0 => out = n + 16)

\* C8 witness: an aligned 16-byte message came back as 32 bytes
C8_Witness ==
    \E c \in Callers :
        /\ Done(c, "encrypt")
        /\ Len(call[c].arg) = 16
        /\ Len(call[c].ret) = 32

-----------------------------------------------------------------------------
(* Properties of RSAPrivate / RSAPublic *)

\* C3: RSAPublic.verify always returns a boolean and never raises: True
\* exactly when the signature is a valid signature of msg under the key
\* (so verify(sign(m), m) is True), False for a mutated signature, a
\* mutated message, a signature of another key, or malformed bytes
C3_VerifyTotalBoolean ==
    rsa.last.op = "verify" =>
        /\ rsa.last.exc = NoExc
        /\ rsa.last.flag \in BOOLEAN
        /\ rsa.last.flag = (/\ rsa.last.a.kind = "sig"
                            /\ ~rsa.last.a.bad
                            /\ rsa.last.a.id = rsa.pub.id
                            /\ rsa.last.a.msg = rsa.last.m)

\* C3 witness: a signature of msg by the matching key with one bit flipped
\* was verified and refused
C3_Witness ==
    /\ rsa.last.op = "verify"
    /\ rsa.last.a.kind = "sig"
    /\ rsa.last.a.bad
    /\ rsa.last.a.id = rsa.pub.id
    /\ rsa.last.a.msg = rsa.last.m
    /\ ~rsa.last.flag

PasswordMatches(pem, password) ==
    IF pem.enc THEN password.some /\ password.v = pem.pw ELSE ~password.some

\* C9 as stated: load_pem(private.format_pem(pw), pw).format_pem(pw) is
\* byte-for-byte private.format_pem(pw), for pw absent or non-empty, and
\* loading with a different password fails
C9_PemByteStable ==
    /\ (/\ rsa.last.op = "format_pem"
        /\ rsa.last.exc = NoExc
        /\ rsa.priv.src.kind = "privpem"
        /\ rsa.last.pw = rsa.priv.src_pw) => rsa.last.ret = rsa.priv.src
    /\ (/\ rsa.last.op = "load_pem"
        /\ rsa.last.a.kind = "privpem"
        /\ ~rsa.last.a.bad) =>
           (rsa.last.exc = NoExc <=> PasswordMatches(rsa.last.a, rsa.last.pw))

\* C9 amended: format_pem(pw) yields a PEM that load_pem accepts with pw
\* and with no other password; the re-serialization of the loaded key is
\* byte-for-byte equal when pw is absent; with a password it is a PEM of
\* the same key under the same password that loads back to that key,
\* equal to the first PEM up to the salt drawn per call
C9_PemStableUpToSalt ==
    /\ (/\ rsa.last.op = "format_pem"
        /\ rsa.priv.src.kind = "privpem"
        /\ rsa.last.pw = rsa.priv.src_pw) =>
           /\ rsa.last.exc = NoExc
           /\ ~rsa.last.pw.some => rsa.last.ret = rsa.priv.src
           /\ [rsa.last.ret EXCEPT !.salt = rsa.priv.src.salt] = rsa.priv.src
           /\ LoadPemPrivateKey(rsa.last.ret, rsa.last.pw).exc = NoExc
           /\ LoadPemPrivateKey(rsa.last.ret, rsa.last.pw).id = rsa.priv.id
    /\ (/\ rsa.last.op \in {"format_pem", "generate_key"}
        /\ rsa.last.exc = NoExc) => PasswordMatches(rsa.last.ret, rsa.last.pw)
    /\ (/\ rsa.last.op = "load_pem"
        /\ rsa.last.a.kind = "privpem"
        /\ ~rsa.last.a.bad) =>
           /\ rsa.last.exc = NoExc <=> PasswordMatches(rsa.last.a, rsa.last.pw)
           /\ rsa.last.exc = NoExc =>
                  /\ rsa.priv.id = rsa.last.a.id
                  /\ rsa.priv.src = rsa.last.a

\* C9 witness: a password-protected PEM was loaded with its password and
\* serialized again under that password, with a different salt
C9_Witness ==
    /\ rsa.last.op = "format_pem"
    /\ rsa.last.pw.some
    /\ rsa.last.pw = rsa.priv.src_pw
    /\ rsa.priv.src.enc
    /\ rsa.last.ret.salt # rsa.priv.src.salt

-----------------------------------------------------------------------------
(* Properties of CaseInsensitiveDict *)

\* C10: for every key in every case, d[k], d.get(k) and (k in d) agree:
\* (k in d) is true and d.get(k) returns the stored value exactly when
\* d[k] succeeds
C10_LookupsAgree ==
    \A k \in DictKeys :
        LET r == GetItem(cid.data, k)
        IN  /\ Contains(cid.data, k) = r.ok
            /\ \A impl \in GetImpls :
                   /\ Get(impl, cid.data, k).ok = r.ok
                   /\ Get(impl, cid.data, k).val = r.val

=============================================================================
